---- MODULE Spec2Model ----
(***************************************************************************)
(* Model of the multi-shard media store of database/ia_filterdb.py:        *)
(* save_file (capacity-routed insert over three shards), the identifier    *)
(* codec, and the merged search get_search_results.                        *)
(*                                                                         *)
(* Text is a sequence of one-character strings, a byte is 0..255, and a    *)
(* byte count too large for one integer is a pair [hi, lo] meaning         *)
(* hi * GiB + lo.                                                          *)
(***************************************************************************)
EXTENDS Integers, Sequences, FiniteSets, TLC

\* ------------------------------------------------------------------ bounds
\* save_file calls made in one behaviour
MaxSaves == 2
\* bytes one inserted document adds to a shard's dataSize
DocBytes == 1
\* documents already stored when a search session starts
MaxDocs == 4
\* largest max_results a search is called with
MaxResults == 1
\* the largest offset a client starts from
MaxOffset == 2
\* number of values each field of a file descriptor ranges over
MaxValues == 3
\* most words a command message carries after the command itself
MaxArgs == 3
\* commands sent in one behaviour
MaxCommands == 2

\* ------------------------------------------------------------- constants
\* the three databases db1, db2, db3 in the order save_file tries them
NumShards == 3
Shards == 1..NumShards
\* 480 * 1024 * 1024 * 1024, kept as 480 units of GiB bytes
CeilingGiB == 480
GiB == 1024 * 1024 * 1024

\* ------------------------------------------------------------ byte counts
Bytes(h, l) == [hi |-> h, lo |-> l]
Zero == Bytes(0, 0)
Ceiling == Bytes(CeilingGiB, 0)
\* a < b on byte counts
Less(a, b) == a.hi < b.hi \/ (a.hi = b.hi /\ a.lo < b.lo)
\* a + n for a small n >= 0
AddBytes(a, n) ==
    IF a.lo + n >= GiB THEN Bytes(a.hi + 1, a.lo + n - GiB) ELSE Bytes(a.hi, a.lo + n)
\* a - 1 for a > 0
Pred(a) == IF a.lo = 0 THEN Bytes(a.hi - 1, GiB - 1) ELSE Bytes(a.hi, a.lo - 1)

\* -------------------------------------------------------------------- text
Separators == {"_", "-", ".", "+"}
\* re.sub(r"(_|\-|\.|\+)", " ", str(media.file_name))
NormalizeName(name) ==
    [i \in 1..Len(name) |-> IF name[i] \in Separators THEN " " ELSE name[i]]

\* the part of mime_type before the first "/" : mime_type.split('/')[0]
RECURSIVE MajorType(_)
MajorType(mime) ==
    IF mime = <<>> \/ Head(mime) = "/" THEN <<>>
    ELSE <<Head(mime)>> \o MajorType(Tail(mime))

\* ------------------------------------------------------------------- codec
\* byte k (0 = least significant) of v in two's complement, v within 32 bits
ByteOf(v, k) ==
    IF k >= 4 THEN (IF v < 0 THEN 255 ELSE 0)
    ELSE LET d == IF k = 0 THEN 1 ELSE IF k = 1 THEN 256 ELSE IF k = 2 THEN 65536 ELSE 16777216
             q == IF v >= 0 THEN v \div d ELSE -((-v + d - 1) \div d)
         IN  q % 256

LittleEndian(v, width) == [k \in 1..width |-> ByteOf(v, k - 1)]

\* pack("<iiqq", file_type, dc_id, media_id, access_hash)
PackFileId(d) ==
    LittleEndian(d.file_type, 4) \o LittleEndian(d.dc_id, 4)
        \o LittleEndian(d.media_id, 8) \o LittleEndian(d.access_hash, 8)

RECURSIVE RleLoop_NoCount(_, _, _)
\* the loop writing a zero run as the marker 0 without its length
RleLoop_NoCount(s, r, n) ==
    IF s = <<>> THEN r
    ELSE IF Head(s) = 0 THEN RleLoop_NoCount(Tail(s), r, n + 1)
    ELSE IF n > 0 THEN RleLoop_NoCount(Tail(s), r \o <<0, Head(s)>>, 0)
    ELSE RleLoop_NoCount(Tail(s), r \o <<Head(s)>>, 0)

\* the loop of encode_file_id: r is the output so far, n the pending zero run
RECURSIVE RleLoop(_, _, _)
RleLoop(s, r, n) ==
    IF s = <<>> THEN r
    ELSE IF Head(s) = 0 THEN RleLoop(Tail(s), r, n + 1)
    ELSE IF n > 0 THEN RleLoop(Tail(s), r \o <<0, n, Head(s)>>, 0)
    ELSE RleLoop(Tail(s), r \o <<Head(s)>>, 0)

B64Alphabet ==
    << "A","B","C","D","E","F","G","H","I","J","K","L","M","N","O","P",
       "Q","R","S","T","U","V","W","X","Y","Z","a","b","c","d","e","f",
       "g","h","i","j","k","l","m","n","o","p","q","r","s","t","u","v",
       "w","x","y","z","0","1","2","3","4","5","6","7","8","9","-","_" >>

\* base64.urlsafe_b64encode(r).decode().rstrip("=")
RECURSIVE UrlSafeB64(_)
UrlSafeB64(b) ==
    IF b = <<>> THEN <<>>
    ELSE IF Len(b) = 1 THEN
        << B64Alphabet[(b[1] \div 4) + 1], B64Alphabet[((b[1] % 4) * 16) + 1] >>
    ELSE IF Len(b) = 2 THEN
        << B64Alphabet[(b[1] \div 4) + 1],
           B64Alphabet[((b[1] % 4) * 16 + b[2] \div 16) + 1],
           B64Alphabet[((b[2] % 16) * 4) + 1] >>
    ELSE
        << B64Alphabet[(b[1] \div 4) + 1],
           B64Alphabet[((b[1] % 4) * 16 + b[2] \div 16) + 1],
           B64Alphabet[((b[2] % 16) * 4 + b[3] \div 64) + 1],
           B64Alphabet[(b[3] % 64) + 1] >>
        \o UrlSafeB64(SubSeq(b, 4, Len(b)))

encode_file_id(s) == UrlSafeB64(RleLoop(s \o <<22, 4>>, <<>>, 0))

\* the file_id half of unpack_new_file_id, on the decoded descriptor
unpack_new_file_id(d) == encode_file_id(PackFileId(d))

\* ------------------------------------------------------------ save inputs
None == <<"<None>">>
Descriptor(ft, dc, mid, ah) ==
    [file_type |-> ft, dc_id |-> dc, media_id |-> mid, access_hash |-> ah]
\* a message's media: the decoded descriptor, its name, its mime type, and
\* whether the document schema accepts its field values
Media(d, name, mime, wf) ==
    [file_id |-> d, file_name |-> name, mime_type |-> mime, well_formed |-> wf]

Medias ==
    { Media(Descriptor(5, 1, 7, 3), <<"a", "_", "b">>, <<"v", "/", "m">>, TRUE),
      Media(Descriptor(5, 1, 7, 3), <<"A", ".", "b">>, None, TRUE),
      Media(Descriptor(5, 1, 8, -2), <<"a">>, <<"v", "/", "m">>, TRUE),
      Media(Descriptor(4, 2, 256, 0), <<"a", "b">>, None, FALSE) }

\* ------------------------------------------------------------------ state
\* the callers of save_file; under Spec one caller makes its calls one after
\* another
Procs == {"p1", "p2"}

VARIABLES
    db,       \* db[s]: the documents of shard s in natural (insertion) order
    usage,    \* usage[s]: dbstats dataSize of shard s
    clock,    \* number of documents created so far (creation order)
    pc,       \* pc[p]: where caller p is in save_file
    call,     \* call[p]: the locals of p's current (or last) save_file call
    prev,     \* the save_file call completed before the current one
    nsaves,   \* save_file calls made
    pg,       \* the paging client of get_search_results
    last,     \* the last call of a read function or of a command handler
    users     \* users[u]: the premium record the user database keeps of u

vars == <<db, usage, clock, pc, call, prev, nsaves, pg, last, users>>

\* full: the shards an earlier call found at or above the ceiling; failed: the
\* shards an earlier call left because the size query or the commit failed;
\* wrote: the shard of the latest 'suc' (0: none)
NoCall ==
    [file_id |-> <<>>, shard |-> 0, ret |-> "none", fresh |-> FALSE,
     full |-> {}, failed |-> {}, wrote |-> 0]
\* the locals of a save_file call, with what the call saw and did: probes and
\* commits list its size queries and its commits, db0 and usage0 are the
\* shards as the call found them
IdleCall ==
    [media |-> Media(Descriptor(0, 0, 0, 0), <<>>, None, TRUE), file_id |-> <<>>,
     file_name |-> <<>>, i |-> 0, ret |-> "none", probes |-> <<>>, commits |-> <<>>,
     db0 |-> [s \in Shards |-> <<>>], usage0 |-> [s \in Shards |-> Zero]]
NoPaging ==
    [active |-> FALSE, query |-> <<>>, max_results |-> 0, lang |-> None,
     start |-> 0, offset |-> 0, called_at |-> 0, files |-> <<>>, pages |-> <<>>, calls |-> 0,
     next_offset |-> <<>>, total |-> 0]

UsageLevels == {Zero, Pred(Ceiling), Ceiling}

\* Telegram user ids; ADMINS is the configured list of info.ADMINS
UserIds == {1, 2}
ADMINS == {1}
\* no call of a read function or of a handler yet
NoLast == [op |-> "none"]
\* what the handlers have sent the user database about one user: expiry_time
\* is the expiry of the latest update_user, as seconds from the moment of the
\* command (0: none sent); removed, that a remove_premium_access was sent
\* after it; trial_reset, that a reset_free_trial covered the user
NoRecord == [expiry_time |-> 0, removed |-> FALSE, trial_reset |-> FALSE]
NoUsers == [u \in UserIds |-> NoRecord]

Init ==
    /\ db = [s \in Shards |-> <<>>]
    /\ usage \in [Shards -> UsageLevels]
    /\ clock = 0
    /\ pc = [p \in Procs |-> "idle"]
    /\ call = [p \in Procs |-> IdleCall]
    /\ prev = NoCall
    /\ nsaves = 0
    /\ pg = NoPaging
    /\ last = NoLast
    /\ users = NoUsers

\* --------------------------------------------------------------- save_file
HasKey(coll, k) == \E j \in 1..Len(coll) : coll[j].file_id = k
CountKey(coll, k) == Cardinality({j \in 1..Len(coll) : coll[j].file_id = k})

\* the shard whose commit ended the call with 'suc' or 'dup' (0: none)
RoutedShard(c) ==
    IF c.commits # <<>> /\ c.commits[Len(c.commits)].out \in {"suc", "dup"}
    THEN c.commits[Len(c.commits)].shard ELSE 0

\* the shards call c found at or above the ceiling
FoundFull(c) ==
    {c.probes[j].shard : j \in {i \in 1..Len(c.probes) :
                                   c.probes[i].qok /\ ~c.probes[i].below}}
\* the shards call c left because the size query or the commit raised
FoundFailing(c) ==
    {c.probes[j].shard : j \in {i \in 1..Len(c.probes) : ~c.probes[i].qok}}
        \cup {c.commits[j].shard : j \in {i \in 1..Len(c.commits) : ~c.commits[i].cok}}

Summary(c) ==
    [file_id |-> c.file_id, shard |-> RoutedShard(c), ret |-> c.ret,
     fresh |-> c.commits # <<>> /\ ~c.commits[Len(c.commits)].had,
     full |-> prev.full \cup FoundFull(c),
     failed |-> prev.failed \cup FoundFailing(c),
     wrote |-> IF c.ret = "suc" THEN RoutedShard(c) ELSE prev.wrote]

\* save_file entry: unpack_new_file_id and the name normalisation (l. 79-80)
SaveCall(p, m) ==
    /\ pc[p] = "idle"
    /\ ~pg.active
    /\ nsaves < MaxSaves
    /\ nsaves' = nsaves + 1
    /\ prev' = IF call[p].ret = "none" THEN prev ELSE Summary(call[p])
    /\ call' = [call EXCEPT ![p] =
                  [media |-> m, file_id |-> unpack_new_file_id(m.file_id),
                   file_name |-> NormalizeName(m.file_name), i |-> 1, ret |-> "none",
                   probes |-> <<>>, commits |-> <<>>, db0 |-> db, usage0 |-> usage]]
    /\ pc' = [pc EXCEPT ![p] = "probe"]
    /\ UNCHANGED <<db, usage, clock, pg, last, users>>

\* `continue`, or the fall out of the loop to `return 'err'` (l. 112-114)
Continue(p, c) ==
    IF c.i < NumShards
    THEN /\ call' = [call EXCEPT ![p] = [c EXCEPT !.i = c.i + 1]]
         /\ pc' = [pc EXCEPT ![p] = "probe"]
    ELSE /\ call' = [call EXCEPT ![p] = [c EXCEPT !.ret = "err"]]
         /\ pc' = [pc EXCEPT ![p] = "idle"]

\* the size test letting a shard exactly at the ceiling take the write
HasCapacity_Inclusive(u) == ~Less(Ceiling, u)

\* the size test with the ceiling taken one byte too early
HasCapacity_OffByOne(u) == Less(AddBytes(u, 1), Ceiling)

\* the size test of l. 87
HasCapacity(u) == Less(u, Ceiling)

\* a validation failure treated like a failed size query
ProbeOutcome_SkipInvalid(qok, u, wf) ==
    IF ~qok THEN "skip"
    ELSE IF ~HasCapacity(u) THEN "skip"
    ELSE IF ~wf THEN "skip"
    ELSE "build"

\* what one loop iteration does up to the commit (l. 86-100): qok is whether
\* the dbstats command answered, u the dataSize it gave, wf whether Model(...)
\* accepts the fields. "skip" goes on to the next shard, "err" returns 'err',
\* "build" has the document ready to commit
ProbeOutcome(qok, u, wf) ==
    IF ~qok THEN "skip"
    ELSE IF ~HasCapacity(u) THEN "skip"
    ELSE IF ~wf THEN "err"
    ELSE "build"

Probe(p) ==
    /\ pc[p] = "probe"
    /\ \E qok \in BOOLEAN :
         LET c == call[p]
             o == ProbeOutcome(qok, usage[c.i], c.media.well_formed)
             e == [c EXCEPT !.probes = Append(@,
                      [shard |-> c.i, qok |-> qok, read |-> usage[c.i],
                       below |-> qok /\ Less(usage[c.i], Ceiling), out |-> o])]
         IN  CASE o = "build" ->
                    /\ pc' = [pc EXCEPT ![p] = "commit"]
                    /\ call' = [call EXCEPT ![p] = e]
               [] o = "err" ->
                    /\ pc' = [pc EXCEPT ![p] = "idle"]
                    /\ call' = [call EXCEPT ![p] = [e EXCEPT !.ret = "err"]]
               [] OTHER -> Continue(p, e)
    /\ UNCHANGED <<db, usage, clock, prev, nsaves, pg, last, users>>

\* the document Model(...) builds (l. 89-97); created is its creation order
NewDocument(c, t) ==
    [file_id |-> c.file_id, file_name |-> c.file_name,
     file_type |-> IF c.media.mime_type = None THEN None
                   ELSE MajorType(c.media.mime_type),
     created |-> t]

\* a commit into a collection without the unique primary key
CommitOutcome_NoUnique(coll, k, cok) == IF ~cok THEN "skip" ELSE "suc"

\* what file.commit() leads to (l. 102-112): cok is whether the store took
\* the write without an error other than a duplicate key. "skip" is the outer
\* `except Exception: continue`, which goes on to the next shard
CommitOutcome(coll, k, cok) ==
    IF ~cok THEN "skip"
    ELSE IF HasKey(coll, k) THEN "dup"
    ELSE "suc"

\* a commit that replaces the stored document when the key is already there
Inserted_Upsert(coll, doc, o) ==
    IF o = "suc" THEN Append(coll, doc)
    ELSE IF o = "dup"
    THEN [j \in 1..Len(coll) |-> IF coll[j].file_id = doc.file_id THEN doc ELSE coll[j]]
    ELSE coll

\* the collection after file.commit() (l. 102): the insert appends the
\* document; an insert the store refuses leaves the collection as it was
Inserted(coll, doc, o) == IF o = "suc" THEN Append(coll, doc) ELSE coll

Commit(p) ==
    /\ pc[p] = "commit"
    /\ \E cok \in BOOLEAN :
         LET c == call[p]
             s == c.i
             o == CommitOutcome(db[s], c.file_id, cok)
             e == [c EXCEPT !.commits = Append(@,
                      [shard |-> s, cok |-> cok, had |-> HasKey(db[s], c.file_id),
                       at |-> usage[s], out |-> o])]
         IN  /\ db' = [db EXCEPT ![s] = Inserted(@, NewDocument(c, clock + 1), o)]
             /\ CASE o = "suc" ->
                      /\ usage' = [usage EXCEPT ![s] = AddBytes(@, DocBytes)]
                      /\ clock' = clock + 1
                      /\ pc' = [pc EXCEPT ![p] = "idle"]
                      /\ call' = [call EXCEPT ![p] = [e EXCEPT !.ret = "suc"]]
                  [] o = "dup" ->
                      /\ pc' = [pc EXCEPT ![p] = "idle"]
                      /\ call' = [call EXCEPT ![p] = [e EXCEPT !.ret = "dup"]]
                      /\ UNCHANGED <<usage, clock>>
                  [] OTHER ->
                      /\ Continue(p, e)
                      /\ UNCHANGED <<usage, clock>>
    /\ UNCHANGED <<prev, nsaves, pg, last, users>>

Next ==
    \/ \E m \in Medias : SaveCall("p1", m)
    \/ Probe("p1")
    \/ Commit("p1")

Spec == Init /\ [][Next]_vars

\* ---------------------------------------------------------------- patterns
\* A pattern is a sequence of lexemes: one character, or a backslash escape.
Lower(ch) == IF ch = "A" THEN "a" ELSE IF ch = "B" THEN "b" ELSE ch
LowerText(s) == [j \in 1..Len(s) |-> Lower(s[j])]
Whitespace == {" "}
WordChars == {"a", "b", "A", "B", "_"}

\* query.strip()
RECURSIVE StripLeft(_)
StripLeft(s) == IF s # <<>> /\ Head(s) \in Whitespace THEN StripLeft(Tail(s)) ELSE s
RECURSIVE StripRight(_)
StripRight(s) ==
    IF s # <<>> /\ s[Len(s)] \in Whitespace THEN StripRight(SubSeq(s, 1, Len(s) - 1)) ELSE s
Strip(s) == StripRight(StripLeft(s))

\* r'(\b|[\.\+\-_])'
BoundaryGroup == << "(", "\\b", "|", "[", "\\.", "\\+", "\\-", "_", "]", ")" >>
\* r'.*[\s\.\+\-_]'
GapPattern == << ".", "*", "[", "\\s", "\\.", "\\+", "\\-", "_", "]" >>

\* query.replace(' ', r'.*[\s\.\+\-_]')
RECURSIVE ReplaceSpaces(_)
ReplaceSpaces(q) ==
    IF q = <<>> THEN <<>>
    ELSE (IF Head(q) = " " THEN GapPattern ELSE <<Head(q)>>) \o ReplaceSpaces(Tail(q))

\* the pattern text of l. 124-129, for the stripped query q
RawPattern(q) ==
    IF q = <<>> THEN << "." >>
    ELSE IF \A j \in 1..Len(q) : q[j] # " " THEN BoundaryGroup \o q \o BoundaryGroup
    ELSE ReplaceSpaces(q)

\* re.compile succeeds: every character set is closed and the parentheses
\* balance (in: inside a set, first: at the first place of a set, depth: open
\* groups)
RECURSIVE Balanced(_, _, _, _)
Balanced(p, in, first, depth) ==
    IF p = <<>> THEN ~in /\ depth = 0
    ELSE IF in THEN
        IF Head(p) = "]" /\ ~first THEN Balanced(Tail(p), FALSE, FALSE, depth)
        ELSE Balanced(Tail(p), TRUE, FALSE, depth)
    ELSE IF Head(p) = "[" THEN Balanced(Tail(p), TRUE, TRUE, depth)
    ELSE IF Head(p) = "(" THEN Balanced(Tail(p), FALSE, FALSE, depth + 1)
    ELSE IF Head(p) = ")" THEN depth > 0 /\ Balanced(Tail(p), FALSE, FALSE, depth - 1)
    ELSE Balanced(Tail(p), FALSE, FALSE, depth)

Compiles(p) == Balanced(p, FALSE, FALSE, 0)

\* the place of the "]" closing the set opened at p[1] = "["
RECURSIVE SetEnd(_, _)
SetEnd(p, j) == IF p[j] = "]" /\ j > 2 THEN j ELSE SetEnd(p, j + 1)

\* ch is in the set whose members are the lexemes m
InSet(m, ch) ==
    \E j \in 1..Len(m) :
        \/ m[j] = "\\s" /\ ch \in Whitespace
        \/ m[j] = "\\." /\ ch = "."
        \/ m[j] = "\\+" /\ ch = "+"
        \/ m[j] = "\\-" /\ ch = "-"
        \/ m[j] \notin {"\\s", "\\.", "\\+", "\\-", "\\b"} /\ Lower(m[j]) = Lower(ch)

IsWord(name, j) == j >= 1 /\ j <= Len(name) /\ name[j] \in WordChars
\* \b between name[j-1] and name[j]
WordBoundary(name, j) == IsWord(name, j - 1) # IsWord(name, j)

\* the compiled pattern p matches name from place j on (re.IGNORECASE)
RECURSIVE MatchAt(_, _, _)
MatchAt(p, name, j) ==
    IF p = <<>> THEN TRUE
    ELSE IF Len(p) >= Len(BoundaryGroup) /\ SubSeq(p, 1, Len(BoundaryGroup)) = BoundaryGroup THEN
        LET rest == SubSeq(p, Len(BoundaryGroup) + 1, Len(p))
        IN  \/ WordBoundary(name, j) /\ MatchAt(rest, name, j)
            \/ j <= Len(name) /\ name[j] \in {".", "+", "-", "_"} /\ MatchAt(rest, name, j + 1)
    ELSE IF Head(p) = "[" THEN
        LET e == SetEnd(p, 2)
        IN  /\ j <= Len(name)
            /\ InSet(SubSeq(p, 2, e - 1), name[j])
            /\ MatchAt(SubSeq(p, e + 1, Len(p)), name, j + 1)
    ELSE IF Head(p) = "." /\ Len(p) >= 2 /\ p[2] = "*" THEN
        \E k \in j..(Len(name) + 1) : MatchAt(SubSeq(p, 3, Len(p)), name, k)
    ELSE IF Head(p) = "." THEN
        j <= Len(name) /\ MatchAt(Tail(p), name, j + 1)
    ELSE
        j <= Len(name) /\ Lower(name[j]) = Lower(Head(p)) /\ MatchAt(Tail(p), name, j + 1)

\* regex.search(name)
ReSearch(p, name) == \E j \in 1..(Len(name) + 1) : MatchAt(p, name, j)

\* sub occurs in s
Contains(s, sub) ==
    \E j \in 0..(Len(s) - Len(sub)) : SubSeq(s, j + 1, j + Len(sub)) = sub

\* the value of `regex` after l. 131-134: the compiled pattern, or the query
\* itself as a plain string
BuildRegex(query) ==
    LET q == Strip(query)
        raw == RawPattern(q)
    IN  IF Compiles(raw) THEN [compiled |-> TRUE, pattern |-> raw]
        ELSE [compiled |-> FALSE, pattern |-> q]

\* {'file_name': regex} on a document: a compiled pattern is searched for in
\* the name, a plain string is compared with it
FilterMatches(regex, doc) ==
    IF regex.compiled THEN ReSearch(regex.pattern, doc.file_name)
    ELSE doc.file_name = regex.pattern

\* ------------------------------------------------------ get_search_results
RECURSIVE Reverse(_)
Reverse(s) == IF s = <<>> THEN <<>> ELSE Reverse(Tail(s)) \o <<Head(s)>>

RECURSIVE Filter(_, _, _)
\* the documents of coll that regex matches, in the order of coll
Filter(coll, regex, j) ==
    IF j > Len(coll) THEN <<>>
    ELSE (IF FilterMatches(regex, coll[j]) THEN <<coll[j]>> ELSE <<>>)
         \o Filter(coll, regex, j + 1)

Take(s, n) == SubSeq(s, 1, IF n < Len(s) THEN n ELSE Len(s))

\* Model.find(filter_q).sort('$natural', -1).to_list(length=max_results * 3)
FindNewestFirst(coll, regex, max_results) ==
    Take(Reverse(Filter(coll, regex, 1)), max_results * 3)

\* Model.count_documents(filter_q)
CountDocuments(coll, regex) == Len(Filter(coll, regex, 1))

RECURSIVE LangFilter(_, _)
\* [f for f in model_results if lang in f.file_name.lower()]
LangFilter(docs, lang) ==
    IF docs = <<>> THEN <<>>
    ELSE (IF Contains(LowerText(Head(docs).file_name), lang) THEN <<Head(docs)>> ELSE <<>>)
         \o LangFilter(Tail(docs), lang)

\* the sort key of l. 149: x.id is the string primary key, which has no
\* generation_time, so getattr gives the default
SortKey(doc) == 0

RECURSIVE InsertDesc(_, _)
\* x put into the descending list s after every element whose key is not smaller
InsertDesc(s, x) ==
    IF s = <<>> THEN <<x>>
    ELSE IF SortKey(Head(s)) >= SortKey(x) THEN <<Head(s)>> \o InsertDesc(Tail(s), x)
    ELSE <<x>> \o s

RECURSIVE SortNewest(_, _)
\* results.sort(key=..., reverse=True): stable, equal keys keep their order
SortNewest(s, acc) ==
    IF s = <<>> THEN acc ELSE SortNewest(Tail(s), InsertDesc(acc, Head(s)))

RECURSIVE Gather(_, _, _, _, _)
\* the loop of l. 140-146 from shard s on: <<results, total_results>>
Gather(d, regex, max_results, lang, s) ==
    IF s > NumShards THEN [results |-> <<>>, total |-> 0]
    ELSE LET found == FindNewestFirst(d[s], regex, max_results)
             kept == IF lang = None THEN found ELSE LangFilter(found, lang)
             rest == Gather(d, regex, max_results, lang, s + 1)
         IN  [results |-> kept \o rest.results,
              total |-> CountDocuments(d[s], regex) + rest.total]

\* results[offset: offset + max_results]
Slice(s, offset, n) ==
    IF offset >= Len(s) THEN <<>>
    ELSE SubSeq(s, offset + 1, IF offset + n < Len(s) THEN offset + n ELSE Len(s))

\* the end test taken strictly: a page ending exactly at the total still
\* announces a further page
NextOffset_Strict(offset, max_results, total_results) ==
    IF offset + max_results > total_results THEN <<>>
    ELSE <<offset + max_results>>

\* l. 152-154; next_offset is <<n>> for the number n and <<>> for the empty
\* string
NextOffset(offset, max_results, total_results) ==
    IF offset + max_results >= total_results THEN <<>>
    ELSE <<offset + max_results>>

get_search_results(d, query, max_results, offset, lang) ==
    LET regex == BuildRegex(query)
        g == Gather(d, regex, max_results, lang, 1)
        results == SortNewest(g.results, <<>>)
    IN  [files |-> Slice(results, offset, max_results),
         next_offset |-> NextOffset(offset, max_results, g.total),
         total_results |-> g.total]

\* ------------------------------------------------- two concurrent callers
\* save_file is a coroutine: between its awaits (the size query, the commit)
\* another call runs. Each of the two callers makes one call
NextConc ==
    \E p \in Procs :
        \/ \E m \in Medias : call[p].ret = "none" /\ SaveCall(p, m)
        \/ Probe(p)
        \/ Commit(p)

ConcSpec == Init /\ [][NextConc]_vars

\* ----------------------------------------------------------- get_bad_files
\* the file_type argument; None is the default, which sets no filter
FileTypes == {None, <<"v">>, <<"d">>}

\* filter_q of l. 171-173 on a document
BadFilterMatches(regex, file_type, doc) ==
    /\ FilterMatches(regex, doc)
    /\ file_type # None => doc.file_type = file_type

RECURSIVE FilterBad(_, _, _, _)
\* the documents of coll that filter_q matches, in the order of coll
FilterBad(coll, regex, file_type, j) ==
    IF j > Len(coll) THEN <<>>
    ELSE (IF BadFilterMatches(regex, file_type, coll[j]) THEN <<coll[j]>> ELSE <<>>)
         \o FilterBad(coll, regex, file_type, j + 1)

RECURSIVE GatherBad(_, _, _, _, _)
\* the loop of l. 177-180 from shard s on, entered with total_results = total:
\* the count is added first, and the running total is the length to_list takes
GatherBad(d, regex, file_type, s, total) ==
    IF s > NumShards THEN [results |-> <<>>, total |-> total]
    ELSE LET hits == Reverse(FilterBad(d[s], regex, file_type, 1))
             t == total + Len(hits)
             rest == GatherBad(d, regex, file_type, s + 1, t)
         IN  [results |-> Take(hits, t) \o rest.results, total |-> rest.total]

\* l. 158-182; `except re.error: return [], 0`
get_bad_files(d, query, file_type) ==
    LET raw == RawPattern(Strip(query))
    IN  IF ~Compiles(raw) THEN [results |-> <<>>, total_results |-> 0]
        ELSE LET g == GatherBad(d, [compiled |-> TRUE, pattern |-> raw], file_type, 1, 0)
             IN  [results |-> g.results, total_results |-> g.total]

\* --------------------------------------------------------- get_file_details
\* Model.find({'file_id': file_id}).to_list(length=1)
FindOne(coll, file_id) ==
    IF HasKey(coll, file_id)
    THEN <<coll[CHOOSE j \in 1..Len(coll) :
                  /\ coll[j].file_id = file_id
                  /\ \A i \in 1..(j - 1) : coll[i].file_id # file_id]>>
    ELSE <<>>

RECURSIVE FileDetailsLast(_, _, _)
\* the loop without its early return: the last shard holding the key answers
FileDetailsLast(d, file_id, s) ==
    IF s > NumShards THEN [files |-> <<>>, probed |-> NumShards]
    ELSE LET later == FileDetailsLast(d, file_id, s + 1)
         IN  IF later.files # <<>> THEN later
             ELSE [files |-> FindOne(d[s], file_id), probed |-> NumShards]

get_file_details_LastWins(d, file_id) == FileDetailsLast(d, file_id, 1)

RECURSIVE FileDetailsFrom(_, _, _)
\* the loop of l. 186-191 from shard s on; probed is the number of shards
\* queried when the function returns
FileDetailsFrom(d, file_id, s) ==
    IF s > NumShards THEN [files |-> <<>>, probed |-> NumShards]
    ELSE LET filedetails == FindOne(d[s], file_id)
         IN  IF filedetails # <<>> THEN [files |-> filedetails, probed |-> s]
             ELSE FileDetailsFrom(d, file_id, s + 1)

get_file_details(d, file_id) == FileDetailsFrom(d, file_id, 1)

\* the keys looked up: those of the media files, one of which is never stored
LookupKeys == {unpack_new_file_id(m.file_id) : m \in Medias}

\* no save_file call is running
Quiet == \A p \in Procs : pc[p] = "idle"

GetBadFiles(query, file_type) ==
    /\ Quiet
    /\ LET r == get_bad_files(db, query, file_type)
       IN  last' = [op |-> "get_bad_files", query |-> query, file_type |-> file_type,
                    results |-> r.results, total_results |-> r.total_results,
                    db0 |-> db]
    /\ UNCHANGED <<db, usage, clock, pc, call, prev, nsaves, pg, users>>

GetFileDetails(file_id) ==
    /\ Quiet
    /\ LET r == get_file_details(db, file_id)
       IN  last' = [op |-> "get_file_details", file_id |-> file_id,
                    files |-> r.files, probed |-> r.probed, db0 |-> db]
    /\ UNCHANGED <<db, usage, clock, pc, call, prev, nsaves, pg, users>>

\* ------------------------------------------------------- the paging client
Queries ==
    { <<>>, <<"a">>, <<"a", " ", "b">>, <<"[">>, <<"a", "[">>, <<" ", "b", " ">> }
Langs == {None, <<"b">>}
PoolNames ==
    << <<"a", " ", "b">>, <<"a", "[">>, <<"A">>, <<"a", "b">>, <<"b">>, <<"[">> >>

\* the document a well-formed save of the k-th pool file has created
PoolDoc(k) ==
    NewDocument([file_id |-> unpack_new_file_id(Descriptor(5, 1, k, 3)),
                 file_name |-> NormalizeName(PoolNames[((k - 1) % Len(PoolNames)) + 1]),
                 media |-> [mime_type |-> IF k % 2 = 0 THEN None ELSE <<"v", "/", "m">>]],
                k)

RECURSIVE Placed(_, _, _)
\* the pool documents that where puts on shard s, oldest first
Placed(where, s, k) ==
    IF k > MaxDocs THEN <<>>
    ELSE (IF where[k] = s THEN <<PoolDoc(k)>> ELSE <<>>) \o Placed(where, s, k + 1)

\* a store that earlier saves have filled: each pool document on one shard or
\* on none, every shard in insertion order
InitSearch ==
    /\ \E where \in [1..MaxDocs -> 0..NumShards] :
         /\ db = [s \in Shards |-> Placed(where, s, 1)]
         /\ usage = [s \in Shards |-> AddBytes(Zero, DocBytes * Len(Placed(where, s, 1)))]
    /\ clock = MaxDocs
    /\ pc = [p \in Procs |-> "idle"]
    /\ call = [p \in Procs |-> IdleCall]
    /\ prev = NoCall
    /\ nsaves = 0
    /\ pg = NoPaging
    /\ last = NoLast
    /\ users = NoUsers

\* a client starts paging through the results of a query from offset 0
SearchStart(query, max_results, lang) ==
    /\ ~pg.active
    /\ pg.calls = 0
    /\ \A p \in Procs : pc[p] = "idle"
    /\ pg' = [NoPaging EXCEPT !.active = TRUE, !.query = query,
                              !.max_results = max_results, !.lang = lang]
    /\ UNCHANGED <<db, usage, clock, pc, call, prev, nsaves, last, users>>

\* a client calls get_search_results with an offset of its own choice and goes
\* on from there
SearchFrom(query, max_results, offset, lang) ==
    /\ ~pg.active
    /\ pg.calls = 0
    /\ \A p \in Procs : pc[p] = "idle"
    /\ pg' = [NoPaging EXCEPT !.active = TRUE, !.query = query,
                              !.max_results = max_results, !.lang = lang,
                              !.start = offset, !.offset = offset]
    /\ UNCHANGED <<db, usage, clock, pc, call, prev, nsaves, last, users>>

\* one call of get_search_results; the client goes on from next_offset until
\* it is the empty string
SearchPage ==
    /\ pg.active
    /\ LET r == get_search_results(db, pg.query, pg.max_results, pg.offset, pg.lang)
       IN  pg' = [pg EXCEPT !.active = r.next_offset # <<>>,
                            !.calls = @ + 1,
                            !.files = r.files,
                            !.called_at = pg.offset,
                            !.pages = @ \o r.files,
                            !.next_offset = r.next_offset,
                            !.total = r.total_results,
                            !.offset = IF r.next_offset = <<>> THEN @ ELSE r.next_offset[1]]
    /\ UNCHANGED <<db, usage, clock, pc, call, prev, nsaves, last, users>>

\* one read of the store in a behaviour: a paging session or a get_bad_files
\* call
NextSearch ==
    \/ \E q \in Queries, m \in 1..MaxResults, l \in Langs :
         last = NoLast /\ SearchStart(q, m, l)
    \/ \E q \in Queries, m \in 1..MaxResults, o \in 1..MaxOffset, l \in Langs :
         last = NoLast /\ SearchFrom(q, m, o, l)
    \/ SearchPage
    \/ \E q \in Queries, t \in FileTypes :
         last = NoLast /\ pg = NoPaging /\ GetBadFiles(q, t)

SearchSpec == InitSearch /\ [][NextSearch]_vars

\* ------------------------------------------------ saves, then one read
\* the save_file calls have returned and their frames are gone; the store
\* stays as they left it and is read from now on
Forget ==
    /\ Quiet
    /\ last = NoLast
    /\ pg = NoPaging
    /\ call' = [p \in Procs |-> IdleCall]
    /\ prev' = NoCall
    /\ last' = [op |-> "serving"]
    /\ UNCHANGED <<db, usage, clock, pc, nsaves, pg, users>>

Serving == last = [op |-> "serving"] /\ pg = NoPaging
\* the queries put to a store that the save_file calls of Medias have filled
FrameQueries == { <<>>, <<"a">>, <<"[">> }

NextFrame ==
    \/ \E m \in Medias : last = NoLast /\ SaveCall("p1", m)
    \/ Probe("p1")
    \/ Commit("p1")
    \/ Forget
    \/ Serving /\ \E k \in LookupKeys : GetFileDetails(k)
    \/ Serving /\ \E q \in FrameQueries, t \in FileTypes : GetBadFiles(q, t)
    \/ Serving /\ \E q \in FrameQueries, m \in 1..MaxResults, l \in Langs :
                    SearchStart(q, m, l)
    \/ SearchPage

FrameSpec == Init /\ [][NextFrame]_vars

\* ------------------------------------------------- two files, two keys
\* the values a descriptor field takes: the first MaxValues of these
CodecValues == <<0, 1, 256, -1, 65536, 2>>
Descriptors ==
    {Descriptor(CodecValues[a], CodecValues[b], CodecValues[c], CodecValues[e]) :
        a \in 1..MaxValues, b \in 1..MaxValues, c \in 1..MaxValues, e \in 1..MaxValues}

\* unpack_new_file_id called for two files
UnpackTwo(a, b) ==
    /\ last' = [op |-> "unpack_new_file_id", a |-> a, b |-> b,
                file_id_a |-> unpack_new_file_id(a),
                file_id_b |-> unpack_new_file_id(b)]
    /\ UNCHANGED <<db, usage, clock, pc, call, prev, nsaves, pg, users>>

\* one pair of files in a behaviour
NextCodec ==
    /\ last = NoLast
    /\ \E a \in Descriptors, b \in Descriptors : UnpackTwo(a, b)

\* empty shards; the codec reads no state
InitCodec == Init /\ usage = [s \in Shards |-> Zero]

CodecSpec == InitCodec /\ [][NextCodec]_vars

\* ------------------------------------------------------ premium commands
\* the words of a command message after the command: a user id or a word that
\* is no number
Tokens == {"2", "x"}
\* int(word): IsInt is whether it returns, IntOf what it returns
IsInt(word) == word = "2"
IntOf(word) == IF word = "2" THEN 2 ELSE 1
\* what get_seconds answers
SecondsValues == {0, 60}

RECURSIVE Words(_)
\* the word lists of length n
Words(n) ==
    IF n = 0 THEN {<<>>}
    ELSE {Append(w, t) : w \in Words(n - 1), t \in Tokens}
Arguments == UNION {Words(n) : n \in 0..MaxArgs}

\* db.update_user({"id": user_id, "expiry_time": expiry_time}) (l. 26-27)
update_user(us, user_id, expiry_time) ==
    [us EXCEPT ![user_id] = [@ EXCEPT !.expiry_time = expiry_time, !.removed = FALSE]]
\* db.remove_premium_access(user_id) (l. 77)
remove_premium_access(us, user_id) == [us EXCEPT ![user_id].removed = TRUE]
\* db.reset_free_trial(target_user_id) (l. 143) and db.reset_free_trial() (l. 146)
reset_free_trial(us, targets) ==
    [u \in UserIds |-> IF u \in targets THEN [us[u] EXCEPT !.trial_reset = TRUE] ELSE us[u]]

\* what a handler leaves: the records, the calls it made on db, its reply
Handled(us, sent, reply) == [users |-> us, sent |-> sent, reply |-> reply]

\* the handler of add_premium without its test of ADMINS
give_premium_cmd_handler_NoGate(us, from_user, command, found, seconds) ==
    IF Len(command) = 3
    THEN IF ~IsInt(command[2]) \/ ~found THEN Handled(us, <<>>, "raise")
         ELSE IF seconds > 0
         THEN Handled(update_user(us, IntOf(command[2]), seconds),
                      <<[method |-> "update_user", id |-> IntOf(command[2])]>>, "added")
         ELSE Handled(us, <<>>, "invalid time")
    ELSE Handled(us, <<>>, "usage")

\* l. 13-43; command[1] is the command word, found whether client.get_users
\* answers, seconds what get_seconds(command[3]) returns
give_premium_cmd_handler(us, from_user, command, found, seconds) ==
    IF from_user \notin ADMINS THEN Handled(us, <<>>, "no permission")
    ELSE IF Len(command) = 3
    THEN IF ~IsInt(command[2]) \/ ~found THEN Handled(us, <<>>, "raise")
         ELSE IF seconds > 0
         THEN Handled(update_user(us, IntOf(command[2]), seconds),
                      <<[method |-> "update_user", id |-> IntOf(command[2])]>>, "added")
         ELSE Handled(us, <<>>, "invalid time")
    ELSE Handled(us, <<>>, "usage")

\* l. 68-86; ok is what db.remove_premium_access returns
remove_premium(us, from_user, command, found, ok) ==
    IF from_user \notin ADMINS THEN Handled(us, <<>>, "no permission")
    ELSE IF Len(command) = 2
    THEN IF ~IsInt(command[2]) \/ ~found THEN Handled(us, <<>>, "raise")
         ELSE Handled(remove_premium_access(us, IntOf(command[2])),
                      <<[method |-> "remove_premium_access", id |-> IntOf(command[2])]>>,
                      IF ok THEN "removed" ELSE "unable")
    ELSE Handled(us, <<>>, "usage")

\* l. 135-153; a word that is no number raises inside the try and is replied
reset_trial(us, from_user, command) ==
    IF from_user \notin ADMINS THEN Handled(us, <<>>, "no permission")
    ELSE IF Len(command) > 1
    THEN IF ~IsInt(command[2]) THEN Handled(us, <<>>, "error")
         ELSE Handled(reset_free_trial(us, {IntOf(command[2])}),
                      <<[method |-> "reset_free_trial", id |-> IntOf(command[2])]>>, "reset")
    ELSE Handled(reset_free_trial(us, UserIds),
                 <<[method |-> "reset_free_trial", id |-> 0]>>, "reset")

\* commands handled so far
Handlings == IF last.op \in {"add_premium", "remove_premium", "refresh"} THEN last.n ELSE 0

\* the handler has run on the message: r is what it leaves
Handle(op, from_user, command, seconds, r) ==
    /\ Handlings < MaxCommands
    /\ users' = r.users
    /\ last' = [op |-> op, from_user |-> from_user, command |-> command,
                seconds |-> seconds, sent |-> r.sent, reply |-> r.reply,
                users0 |-> users, n |-> Handlings + 1]
    /\ UNCHANGED <<db, usage, clock, pc, call, prev, nsaves, pg>>

AddPremium(from_user, args) ==
    \E found \in BOOLEAN, seconds \in SecondsValues :
        LET command == <<"add_premium">> \o args
        IN  Handle("add_premium", from_user, command, seconds,
                   give_premium_cmd_handler(users, from_user, command, found, seconds))

RemovePremium(from_user, args) ==
    \E found \in BOOLEAN, ok \in BOOLEAN :
        LET command == <<"remove_premium">> \o args
        IN  Handle("remove_premium", from_user, command, 0,
                   remove_premium(users, from_user, command, found, ok))

Refresh(from_user, args) ==
    LET command == <<"refresh">> \o args
    IN  Handle("refresh", from_user, command, 0, reset_trial(users, from_user, command))

\* the bot stores no file while the commands are handled
InitPremium == Init /\ usage = [s \in Shards |-> Zero]

NextPremium ==
    \/ \E from_user \in UserIds, args \in Arguments : AddPremium(from_user, args)
    \/ \E from_user \in UserIds, args \in Arguments : RemovePremium(from_user, args)
    \/ \E from_user \in UserIds, args \in Arguments : Refresh(from_user, args)

PremiumSpec == InitPremium /\ [][NextPremium]_vars

\* --------------------------------------------------- properties: save_file
UsageOf(a, b, c) == <<a, b, c>>
InNoShard(d, k) == \A s \in Shards : ~HasKey(d[s], k)
Returned(p) == pc[p] = "idle" /\ call[p].ret # "none"
QueriesAllAnswered(c) == \A j \in 1..Len(c.probes) : c.probes[j].qok
\* the shards on which the call has committed or is about to commit
Attempted(p) ==
    {call[p].commits[j].shard : j \in 1..Len(call[p].commits)}
        \cup (IF pc[p] = "commit" THEN {call[p].i} ELSE {})
FirstAttempt(p) == CHOOSE s \in Attempted(p) : \A r \in Attempted(p) : s <= r

\* C1: when two successive save_file calls carry the same storage key and both
\* end with their commit on the same shard, which did not hold the key before
\* the first call, the first returns 'suc', the second returns 'dup', and the
\* shard then holds exactly one document with that key.
C1_DuplicateIdempotence ==
    \A p \in Procs :
        LET c == call[p]
        IN  ( /\ Returned(p)
              /\ prev.shard # 0
              /\ prev.fresh
              /\ RoutedShard(c) = prev.shard
              /\ c.file_id = prev.file_id )
            => /\ prev.ret = "suc"
               /\ c.ret = "dup"
               /\ CountKey(db[prev.shard], c.file_id) = 1

C1_Witness ==
    \E p \in Procs :
        /\ Returned(p)
        /\ prev.shard # 0 /\ prev.fresh
        /\ RoutedShard(call[p]) = prev.shard
        /\ call[p].file_id = prev.file_id
        /\ call[p].media.file_name # <<"a", "_", "b">>
        /\ call[p].ret = "dup"

\* the call found the usages [ceiling-1, 0, 0], every size query it made was
\* answered, and its record is well formed and new to all three shards
C2_Case(c) ==
    /\ c.usage0 = UsageOf(Pred(Ceiling), Zero, Zero)
    /\ QueriesAllAnswered(c)
    /\ c.media.well_formed
    /\ InNoShard(c.db0, c.file_id)

\* C2 as stated: with usages [ceiling-1, 0, 0] and no failing size query, a
\* save of a valid new record lands in shard 2 and not in shard 1.
C2_LandsInShardTwo ==
    \A p \in Procs :
        (Returned(p) /\ C2_Case(call[p]))
        => /\ HasKey(db[2], call[p].file_id)
           /\ ~HasKey(db[1], call[p].file_id)

\* C2 amended: with usages [ceiling-1, 0, 0] and no failing size query, a save
\* of a valid new record makes its first commit on shard 1, whose usage is
\* still below the ceiling, and when the store takes that commit the record is
\* in shard 1 and in no other shard; with usages [ceiling, 0, 0] shard 1 gets
\* no commit and the first commit is made on shard 2.
C2_LandsInShardOne ==
    \A p \in Procs :
        LET c == call[p]
        IN  /\ (C2_Case(c) /\ Attempted(p) # {}) =>
                 /\ FirstAttempt(p) = 1
                 /\ (c.commits # <<>> /\ c.commits[1].cok) =>
                      /\ Returned(p) /\ c.ret = "suc"
                      /\ HasKey(db[1], c.file_id)
                      /\ ~HasKey(db[2], c.file_id) /\ ~HasKey(db[3], c.file_id)
            /\ ( /\ c.usage0 = UsageOf(Ceiling, Zero, Zero)
                 /\ QueriesAllAnswered(c)
                 /\ c.media.well_formed
                 /\ Attempted(p) # {} ) => FirstAttempt(p) = 2

C2_Witness ==
    \E p \in Procs :
        /\ Returned(p) /\ C2_Case(call[p])
        /\ call[p].ret = "suc"
        /\ HasKey(db[1], call[p].file_id)

\* C3: a call probes the shards in the order 1, 2, 3; a shard that is full or
\* whose size query fails gets no write; the call makes a single commit, on
\* the first shard whose size query answers with a usage below the ceiling;
\* and after a commit that gives 'suc' or 'dup' no further shard is probed.
C3_ShardSelection ==
    \A p \in Procs :
        LET c == call[p]
        IN  /\ \A j \in 1..Len(c.probes) : c.probes[j].shard = j
            /\ \A j \in 1..Len(c.probes) :
                 ~c.probes[j].below => db[j] = c.db0[j] /\ j \notin Attempted(p)
            /\ Cardinality(Attempted(p)) <= 1
            /\ \A s \in Attempted(p) :
                 /\ c.probes[s].below
                 /\ \A j \in 1..(s - 1) : ~c.probes[j].below
            /\ \A j \in 1..Len(c.commits) :
                 c.commits[j].out \in {"suc", "dup"} =>
                     Returned(p) /\ Len(c.probes) = c.commits[j].shard

\* C4: every storage key is in at most one of the three shards.
C4_KeyInOneShard ==
    \A s1 \in Shards, s2 \in Shards :
        s1 # s2 => \A j \in 1..Len(db[s1]) : ~HasKey(db[s2], db[s1][j].file_id)

\* C5: when the record fails validation on the first shard with capacity, the
\* call returns 'err' at once: nothing was written and no later shard is
\* probed.
C5_ValidationFailure ==
    \A p \in Procs :
        LET c == call[p]
        IN  \A j \in 1..Len(c.probes) :
                (c.probes[j].below /\ ~c.media.well_formed)
                => /\ Returned(p)
                   /\ c.ret = "err"
                   /\ Len(c.probes) = j
                   /\ c.commits = <<>>
                   /\ db = c.db0

C5_Witness ==
    \E p \in Procs :
        /\ Returned(p)
        /\ ~call[p].media.well_formed
        /\ Len(call[p].probes) = 2
        /\ ~call[p].probes[1].below
        /\ call[p].probes[2].below
        /\ call[p].ret = "err"

\* C6: when a commit fails with a store error other than a duplicate key, the
\* error leaves save_file: the call ends there without 'suc', 'dup' or 'err',
\* and no later shard is probed or written.
C6_StoreErrorPropagates ==
    \A p \in Procs :
        LET c == call[p]
        IN  \A j \in 1..Len(c.commits) :
                ~c.commits[j].cok
                => /\ pc[p] = "idle"
                   /\ c.ret = "raise"
                   /\ j = Len(c.commits)
                   /\ Len(c.probes) = c.commits[j].shard

\* C10: a call in which every shard is full or fails its size query returns
\* 'err' and writes nothing; and a call returns 'err' only then or on a
\* validation failure.
C10_AllShardsExhausted ==
    \A p \in Procs :
        LET c == call[p]
            exhausted == /\ Len(c.probes) = NumShards
                         /\ \A j \in 1..NumShards : ~c.probes[j].below
            invalid == /\ ~c.media.well_formed
                       /\ \E j \in 1..Len(c.probes) : c.probes[j].below
        IN  /\ exhausted => Returned(p) /\ c.ret = "err" /\ db = c.db0
            /\ (Returned(p) /\ c.ret = "err") => exhausted \/ invalid

\* the shards on which a commit of call c ended with 'suc'
WroteTo(c) ==
    {c.commits[j].shard : j \in {i \in 1..Len(c.commits) : c.commits[i].out = "suc"}}

\* C11 as the specification states it: the shard that accepts a write is never
\* below the shard of an earlier write, and no shard that an earlier save_file
\* call skipped, for whatever reason, is written again.
C11_MonotonicSelection ==
    \A p \in Procs : \A s \in WroteTo(call[p]) :
        /\ s >= prev.wrote
        /\ s \notin prev.full \cup prev.failed

\* C11: a shard that a save_file call found at or above the ceiling takes no
\* write from that call or from any later call; only a shard skipped because
\* its size query or its commit raised can be written again.
C11_FullShardStaysClosed ==
    \A p \in Procs : \A s \in WroteTo(call[p]) :
        s \notin prev.full \cup FoundFull(call[p])

C11_Witness ==
    \E p \in Procs :
        /\ Returned(p)
        /\ prev.full = {1}
        /\ prev.wrote = 2
        /\ call[p].ret = "suc"
        /\ RoutedShard(call[p]) = 2
        /\ FoundFull(call[p]) = {1}

\* ------------------------------------------ properties: get_search_results
\* the documents of all three shards that satisfy test
Stored(test(_)) ==
    UNION {{db[s][j] : j \in {i \in 1..Len(db[s]) : test(db[s][i])}} : s \in Shards}
Occurrences(seq, x) == Cardinality({j \in 1..Len(seq) : seq[j] = x})

RECURSIVE NewestFirst(_)
\* the documents of S by descending creation order
NewestFirst(S) ==
    IF S = {} THEN <<>>
    ELSE LET m == CHOOSE x \in S : \A y \in S : y.created <= x.created
         IN  <<m>> \o NewestFirst(S \ {m})

PagingDone == pg.calls > 0 /\ ~pg.active /\ pg.start = 0

\* C7: paging through a query without language filter from offset 0 in steps
\* of max_results until next_offset is the empty string returns each of the
\* total_count matching documents exactly once.
C7_PaginationComplete ==
    (PagingDone /\ pg.lang = None) =>
        LET regex == BuildRegex(pg.query)
            matching == Stored(LAMBDA doc : FilterMatches(regex, doc))
        IN  /\ pg.next_offset = <<>>
            /\ pg.total = Cardinality(matching)
            /\ Len(pg.pages) = pg.total
            /\ \A doc \in matching : Occurrences(pg.pages, doc) = 1

\* C8: the page a call returns is the slice [offset, offset + max_results) of
\* the matches of all three shards in descending creation order.
C8_RecencyOrder ==
    pg.calls > 0 =>
        LET regex == BuildRegex(pg.query)
            matching == Stored(LAMBDA doc :
                            /\ FilterMatches(regex, doc)
                            /\ pg.lang # None => Contains(LowerText(doc.file_name), pg.lang))
        IN  /\ pg.files = Slice(NewestFirst(matching), pg.called_at, pg.max_results)
            /\ \A i \in 1..Len(pg.files), j \in 1..Len(pg.files) :
                 i < j => pg.files[i].created > pg.files[j].created

\* C9: when the pattern built from the query does not compile, the search
\* returns the documents whose name contains the query as a substring.
C9_DegradedSearch ==
    ( /\ pg.calls > 0
      /\ pg.lang = None
      /\ ~Compiles(RawPattern(Strip(pg.query))) ) =>
        LET containing == Stored(LAMBDA doc : Contains(doc.file_name, Strip(pg.query)))
        IN  /\ pg.total = Cardinality(containing)
            /\ \A j \in 1..Len(pg.files) : pg.files[j] \in containing
            /\ PagingDone => \A doc \in containing : Occurrences(pg.pages, doc) >= 1

\* C12: every call of get_search_results returns as total_results the number
\* of stored documents that match the filter, and as next_offset the sum
\* offset + max_results when that sum is below the total and the empty
\* string when it reaches or exceeds the total.
C12_NextOffsetSentinel ==
    pg.calls > 0 =>
        LET regex == BuildRegex(pg.query)
            total_count == Cardinality(Stored(LAMBDA doc : FilterMatches(regex, doc)))
            sum == pg.called_at + pg.max_results
        IN  /\ pg.total = total_count
            /\ sum < total_count => pg.next_offset = <<sum>>
            /\ sum >= total_count => pg.next_offset = <<>>

\* a call whose page ends exactly at the total, from an offset above 0
C12_Witness ==
    /\ pg.calls > 0
    /\ pg.called_at > 0
    /\ pg.total = pg.called_at + pg.max_results
    /\ pg.next_offset = <<>>
    /\ pg.files # <<>>

\* ------------------------------------------------ properties: the reads
\* the shards of d that hold a document with key k
Holders(d, k) == {s \in Shards : HasKey(d[s], k)}
FirstHolder(d, k) == CHOOSE s \in Holders(d, k) : \A r \in Holders(d, k) : s <= r

\* C13: get_file_details queries the shards in the order 1, 2, 3 and returns
\* the one document of the first shard that holds the key, without querying a
\* later shard; it returns the empty list exactly when no shard holds the
\* key, after querying all three; and it leaves every shard as it was.
C13_GetFileDetails ==
    last.op = "get_file_details" =>
        LET k == last.file_id
        IN  /\ db = last.db0
            /\ (last.files = <<>>) <=> (Holders(db, k) = {})
            /\ Holders(db, k) = {} => last.probed = NumShards
            /\ Holders(db, k) # {} =>
                 LET f == FirstHolder(db, k)
                 IN  /\ last.probed = f
                     /\ Len(last.files) = 1
                     /\ last.files[1].file_id = k
                     /\ \E j \in 1..Len(db[f]) : db[f][j] = last.files[1]

\* the key is in two shards under different names, and the lookup answers
\* with the document of the first of them
C13_Witness ==
    /\ last.op = "get_file_details"
    /\ Holders(db, last.file_id) = {2, 3}
    /\ last.probed = 2
    /\ last.files = FindOne(db[2], last.file_id)
    /\ last.files # FindOne(db[3], last.file_id)

\* ------------------------------------------------ properties: the codec
\* C14: two descriptors that differ in file_type, dc_id, media_id or
\* access_hash get different keys from unpack_new_file_id.
C14_CodecInjective ==
    last.op = "unpack_new_file_id" =>
        (last.a # last.b => last.file_id_a # last.file_id_b)

\* two descriptors whose packed bytes differ only in where a zero run ends
C14_Witness ==
    /\ last.op = "unpack_new_file_id"
    /\ last.a = Descriptor(0, 1, 0, 0)
    /\ last.b = Descriptor(256, 0, 0, 0)
    /\ last.file_id_a # last.file_id_b

\* ------------------------------------------- properties: concurrent saves
\* the size query call c made on shard s
ProbeOf(c, s) == c.probes[CHOOSE j \in 1..Len(c.probes) : c.probes[j].shard = s]

\* C15: when two save_file calls for the same key run concurrently and both
\* end with their commit on the same shard, which held the key before
\* neither, one returns 'suc', the other returns 'dup', and the shard holds
\* exactly one document with that key.
C15_ConcurrentSameKey ==
    \A p \in Procs, q \in Procs :
        LET s == RoutedShard(call[p])
            k == call[p].file_id
        IN  ( /\ p # q
              /\ Returned(p) /\ Returned(q)
              /\ call[q].file_id = k
              /\ s # 0
              /\ RoutedShard(call[q]) = s
              /\ ~HasKey(call[p].db0[s], k)
              /\ ~HasKey(call[q].db0[s], k) )
            => /\ {call[p].ret, call[q].ret} = {"suc", "dup"}
               /\ CountKey(db[s], k) = 1

\* both calls had read the usage of the shard before either committed
C15_Witness ==
    /\ Returned("p1") /\ Returned("p2")
    /\ call["p1"].file_id = call["p2"].file_id
    /\ call["p1"].media # call["p2"].media
    /\ RoutedShard(call["p1"]) = 1
    /\ RoutedShard(call["p2"]) = 1
    /\ ProbeOf(call["p1"], 1).read = ProbeOf(call["p2"], 1).read
    /\ call["p1"].ret = "dup"
    /\ call["p2"].ret = "suc"

\* C16: a commit that writes a document was preceded by a size query of the
\* same call that read a usage below the ceiling; the shard is at or above the
\* ceiling at the moment of the write only when another call has written to
\* it between that query and the write, and never when the call ran alone.
C16_SoftCeiling ==
    \A p \in Procs : \A j \in 1..Len(call[p].commits) :
        LET e == call[p].commits[j]
            r == ProbeOf(call[p], e.shard)
        IN  e.out = "suc" =>
              /\ r.qok /\ Less(r.read, Ceiling)
              /\ ~Less(e.at, Ceiling) => Less(r.read, e.at)
              /\ (\A q \in Procs \ {p} : pc[q] = "idle" /\ call[q].ret = "none")
                    => Less(e.at, Ceiling)

\* both calls read ceiling - 1 on shard 1 and both wrote to it: the second
\* write finds the shard at the ceiling
C16_Witness ==
    \E p \in Procs, q \in Procs :
        /\ p # q
        /\ call[p].ret = "suc" /\ call[q].ret = "suc"
        /\ RoutedShard(call[p]) = 1 /\ RoutedShard(call[q]) = 1
        /\ ProbeOf(call[p], 1).read = Pred(Ceiling)
        /\ ProbeOf(call[q], 1).read = Pred(Ceiling)
        /\ \E j \in 1..Len(call[q].commits) :
             /\ call[q].commits[j].out = "suc"
             /\ ~Less(call[q].commits[j].at, Ceiling)

\* -------------------------------------------------- properties: the frame
\* C17: a step changes the shards only when it is the commit that ends a
\* save_file call with 'suc', and it then appends one document to one shard
\* and leaves every stored document as it was; a call that has returned 'dup'
\* or 'err' has left all three shards as it found them, one that has
\* returned 'suc' has added one document to one shard; a step of
\* get_search_results, get_bad_files or get_file_details changes no shard.
C17_Frame ==
    /\ [][ /\ \/ db' = db
              \/ \E p \in Procs, s \in Shards :
                   /\ pc[p] = "commit" /\ call[p].i = s
                   /\ pc'[p] = "idle" /\ call'[p].ret = "suc"
                   /\ Len(db'[s]) = Len(db[s]) + 1
                   /\ SubSeq(db'[s], 1, Len(db[s])) = db[s]
                   /\ \A r \in Shards \ {s} : db'[r] = db[r]
            /\ (pg' # pg \/ last' # last) => db' = db ]_vars
    /\ [](\A p \in Procs :
            /\ (Returned(p) /\ call[p].ret \in {"dup", "err"}) => db = call[p].db0
            /\ (Returned(p) /\ call[p].ret = "suc") =>
                 \E s \in Shards :
                     /\ Len(db[s]) = Len(call[p].db0[s]) + 1
                     /\ SubSeq(db[s], 1, Len(call[p].db0[s])) = call[p].db0[s]
                     /\ \A r \in Shards \ {s} : db[r] = call[p].db0[r])

\* two saves of which one added nothing, and after them a get_bad_files call
\* that found a document and left the shards as they were
C17_Witness ==
    /\ last.op = "get_bad_files"
    /\ last.results # <<>>
    /\ nsaves = MaxSaves
    /\ clock < nsaves
    /\ db = last.db0

\* ------------------------------------------- properties: get_bad_files
\* C18: get_bad_files returns, each once, the stored documents whose name
\* matches the pattern built from the query - or, when the pattern does not
\* compile, whose name contains the query as a substring - and whose type is
\* the file_type given, if one is given; and the total it returns is the
\* number of documents it returns.
C18_BadFilesComplete ==
    last.op = "get_bad_files" =>
        LET q == Strip(last.query)
            raw == RawPattern(q)
            flagged == Stored(LAMBDA doc :
                          /\ IF Compiles(raw) THEN ReSearch(raw, doc.file_name)
                             ELSE Contains(doc.file_name, q)
                          /\ last.file_type # None => doc.file_type = last.file_type)
        IN  /\ last.total_results = Len(last.results)
            /\ Len(last.results) = Cardinality(flagged)
            /\ \A doc \in flagged : Occurrences(last.results, doc) = 1

\* --------------------------------------- properties: premium commands
\* C19: an add_premium, remove_premium or refresh command from a sender who
\* is not in ADMINS makes no call on the user database and leaves every
\* user's record as it was; and add_premium sends an expiry only when the
\* sender is in ADMINS, the command has exactly two arguments and get_seconds
\* returned more than zero seconds, and then only for the user named.
C19_AdminGating ==
    last.op \in {"add_premium", "remove_premium", "refresh"} =>
        /\ last.from_user \notin ADMINS =>
             /\ last.sent = <<>>
             /\ users = last.users0
        /\ ( /\ last.op = "add_premium"
             /\ \/ last.sent # <<>>
                \/ \E u \in UserIds : users[u].expiry_time # last.users0[u].expiry_time )
           => /\ last.from_user \in ADMINS
              /\ Len(last.command) = 3
              /\ last.seconds > 0
              /\ \A u \in UserIds \ {IntOf(last.command[2])} : users[u] = last.users0[u]

\* after an admin's grant to user 2, user 2 sends remove_premium for itself
\* and keeps the grant
C19_Witness ==
    /\ last.op = "remove_premium"
    /\ last.from_user = 2
    /\ last.command = <<"remove_premium", "2">>
    /\ users[2].expiry_time > 0
    /\ ~users[2].removed
    /\ last.reply = "no permission"

====
